---------------------------- MODULE Spec2Model ----------------------------
(***************************************************************************)
(* Manpower Forecasting System (src/app.py): the Streamlit script as a     *)
(* state machine.  One action is one run of the script, started by one     *)
(* user interaction; the session state (st.session_state) and the widget   *)
(* states persist between runs.                                            *)
(*                                                                         *)
(* Numbers.  Percentages are held in hundredths of a percent (12.5 % is    *)
(* 1250), which is exact for every value round(x, 2) produces.  Man-days   *)
(* and manpower are exact rationals <<n, d>> in lowest terms, d > 0: the   *)
(* model follows the arithmetic of the code over the reals and leaves the  *)
(* binary floating point error of the interpreter out.                     *)
(*                                                                         *)
(* Dates are day numbers: day 0 is Monday 2024-01-01.  The calendar        *)
(* operators are those of datetime for 2024-01-01 .. 2025-12-28, the ISO   *)
(* years 2024 and 2025, which both have 52 weeks.                          *)
(***************************************************************************)
EXTENDS Integers, Sequences, FiniteSets, TLC

VARIABLES
    edited_df,            \* widget: the task input table submitted last
    global_working_days,  \* widget: the weekday multiselect submitted last
    baseline_df,          \* st.session_state["baseline_df"]; <<>> = key absent
    working_days,         \* st.session_state["working_days"]
    task_progress_df,     \* st.session_state["task_progress_df"]
    weekly_df,            \* st.session_state["weekly_df"]
    daily_df,             \* st.session_state["daily_df"]
    generate_final,       \* st.session_state["generate_final"]
    report_type,          \* st.session_state["report_type"]; "" = key absent
    err,                  \* the error the last run showed: [kind, task]
    stopped,              \* where the last run of the script ended
    adjusted_raw,         \* local adjusted_df of the last run before line 472
    adjusted_df,          \* local adjusted_df of the last run after line 472
    final_task_summary,   \* the table shown at line 561; <<>> = not shown
    last,                 \* the interaction that started the last run
    edits                 \* progress edits made since the baseline was built

vars == <<edited_df, global_working_days, baseline_df, working_days,
          task_progress_df, weekly_df, daily_df, generate_final, report_type,
          err, stopped, adjusted_raw, adjusted_df, final_task_summary, last,
          edits>>

session == <<baseline_df, working_days, task_progress_df, weekly_df, daily_df,
             generate_final, report_type>>

-----------------------------------------------------------------------------
(* Bounds of the model.                                                    *)

\* user edits of the progress tables per session
MaxEdits == 2
\* longest short date range (days) of the calendar specification
MaxSpan == 33

-----------------------------------------------------------------------------
(* Exact rational arithmetic.                                              *)

Abs(x) == IF x < 0 THEN -x ELSE x

RECURSIVE GCD(_, _)
GCD(a, b) == IF b = 0 THEN a ELSE GCD(b, a % b)

Rat(n, d) ==
    LET g == GCD(Abs(n), Abs(d))
        s == IF d < 0 THEN -1 ELSE 1
    IN  <<(s * n) \div g, (s * d) \div g>>

RZero == <<0, 1>>

RInt(k) == <<k, 1>>

\* a * b; the common factors are cancelled crosswise before multiplying,
\* which leaves the product in lowest terms
RMul(a, b) ==
    LET g1 == GCD(Abs(a[1]), b[2])
        g2 == GCD(Abs(b[1]), a[2])
    IN  IF a[1] = 0 \/ b[1] = 0 THEN RZero
        ELSE <<(a[1] \div g1) * (b[1] \div g2), (a[2] \div g2) * (b[2] \div g1)>>

\* a / b, b # 0
RDiv(a, b) == RMul(a, IF b[1] < 0 THEN <<-b[2], -b[1]>> ELSE <<b[2], b[1]>>)

RAdd(a, b) ==
    LET g == GCD(a[2], b[2])
    IN  Rat(a[1] * (b[2] \div g) + b[1] * (a[2] \div g), a[2] * (b[2] \div g))

RGt0(a) == a[1] > 0

\* round to the nearest integer, ties to even: Python's round and numpy's
RoundHalfEven(a) ==
    LET q == a[1] \div a[2]
        r == a[1] - q * a[2]
    IN  IF 2 * r < a[2] THEN q
        ELSE IF 2 * r > a[2] THEN q + 1
        ELSE IF q % 2 = 0 THEN q ELSE q + 1

\* RoundPercent cutting the third decimal off instead of rounding
TruncatePercent(n) == 10000 \div n

\* round(100.0 / n, 2) in hundredths of a percent (lines 273, 316), n > 0
RoundPercent(n) == RoundHalfEven(Rat(10000, n))

\* Series.round(2) of one value (lines 199, 242, 472): the integer part is
\* split off before the scaling by 100
Round2(a) ==
    LET q == a[1] \div a[2]
        r == a[1] - q * a[2]
    IN  Rat(100 * q + RoundHalfEven(<<100 * r, a[2]>>), 100)

\* Series.sum() of rationals and of integers.  The sums are exact, so the
\* order of the additions is free: the halves are summed apart to keep the
\* recursion shallow on long tables.
RECURSIVE RSumIn(_, _, _)
RSumIn(s, lo, hi) ==
    IF lo > hi THEN RZero
    ELSE IF lo = hi THEN s[lo]
    ELSE RAdd(RSumIn(s, lo, (lo + hi) \div 2), RSumIn(s, ((lo + hi) \div 2) + 1, hi))

RSum(s) == RSumIn(s, 1, Len(s))

RECURSIVE ISumIn(_, _, _)
ISumIn(s, lo, hi) ==
    IF lo > hi THEN 0
    ELSE IF lo = hi THEN s[lo]
    ELSE ISumIn(s, lo, (lo + hi) \div 2) + ISumIn(s, ((lo + hi) \div 2) + 1, hi)

ISum(s) == ISumIn(s, 1, Len(s))

RECURSIVE Flatten(_)
Flatten(ss) == IF ss = <<>> THEN <<>> ELSE Head(ss) \o Flatten(Tail(ss))

-----------------------------------------------------------------------------
(* Calendar.                                                               *)

\* date.weekday(): Monday is 0
Weekday(d) == d % 7

\* date.isocalendar().week and .year
IsoWeek(d) == ((d \div 7) % 52) + 1

IsoYear(d) == 2024 + (d \div 364)

\* pd.date_range(start, end)
DateRange(s, e) == [i \in 1..(e - s + 1) |-> s + i - 1]

\* [d for d in dates if d.weekday() in selected_weekdays]
WorkingDates(s, e, W) == SelectSeq(DateRange(s, e), LAMBDA d : Weekday(d) \in W)

\* the key of the weeks dict (lines 267, 420)
WeekKey(d) == IsoWeek(d)

\* the keys of the weeks dict in insertion order, for days[lo..hi]: the
\* keys of the first half, then the new keys of the second half
RECURSIVE WeekKeys(_, _, _)
WeekKeys(days, lo, hi) ==
    IF lo > hi THEN <<>>
    ELSE IF lo = hi THEN <<WeekKey(days[lo])>>
    ELSE LET left  == WeekKeys(days, lo, (lo + hi) \div 2)
             right == WeekKeys(days, ((lo + hi) \div 2) + 1, hi)
             seen  == {left[i] : i \in 1..Len(left)}
         IN  left \o SelectSeq(right, LAMBDA k : k \notin seen)

\* the weeks dict: one list of working days per key (lines 265-270, 418-423)
Weeks(s, e, W) ==
    LET wd   == WorkingDates(s, e, W)
        keys == WeekKeys(wd, 1, Len(wd))
    IN  [i \in 1..Len(keys) |-> SelectSeq(wd, LAMBDA d : WeekKey(d) = keys[i])]

-----------------------------------------------------------------------------
(* Section 1: the baseline (lines 105-148).                                *)

NoError == [kind |-> "none", task |-> ""]

\* man_days, manpower, duration_days of one task (lines 25-29), rate # 0
calculate_baseline(rate, boq, start_date, end_date) ==
    LET man_days      == Rat(boq, rate)
        duration_days == (end_date - start_date) + 1
        manpower      == RDiv(man_days, RInt(duration_days))
    IN  <<man_days, manpower, duration_days>>

\* What the loop body does with one row: the two checks with st.stop()
\* (lines 115-121), then calculate_baseline, whose boq / rate raises
\* ZeroDivisionError on the Python numbers iterrows() yields (line 124).
RowOutcome(row) ==
    IF row.boq <= 0 THEN "InvalidInput"
    ELSE IF row.end_date < row.start_date THEN "InvalidDateRange"
    ELSE IF row.rate = 0 THEN "ZeroDivisionError"
    ELSE "ok"

\* the first row at which the loop stops; 0 when it runs through
FirstFailure(rows) ==
    LET bad == {i \in 1..Len(rows) : RowOutcome(rows[i]) # "ok"}
    IN  IF bad = {} THEN 0 ELSE CHOOSE i \in bad : \A j \in bad : i <= j

\* baseline_results as a table (lines 123-140)
BaselineTable(rows) ==
    [i \in 1..Len(rows) |->
        LET b == calculate_baseline(rows[i].rate, rows[i].boq,
                                    rows[i].start_date, rows[i].end_date)
        IN  [task_code     |-> rows[i].task_code,
             boq           |-> rows[i].boq,
             rate          |-> rows[i].rate,
             man_days      |-> b[1],
             duration_days |-> b[3],
             manpower      |-> b[2],
             start_date    |-> rows[i].start_date,
             end_date      |-> rows[i].end_date]]

-----------------------------------------------------------------------------
(* Section 2: the progress tables (lines 181-340).                         *)

\* the default of the task-level Progress % column (line 202), in hundredths
DefaultProgress == 10000

\* task_progress_df after the editor (lines 193-247); prog[i] is the
\* Progress % of row i as the editor returns it
TaskProgressDf(bl, prog) ==
    [i \in 1..Len(bl) |->
        LET amd == RDiv(bl[i].man_days, Rat(prog[i], 10000))
        IN  [task_code        |-> bl[i].task_code,
             man_days         |-> bl[i].man_days,
             duration_days    |-> bl[i].duration_days,
             boq              |-> bl[i].boq,
             PlannedManpower  |-> Round2(RDiv(bl[i].man_days, RInt(bl[i].duration_days))),
             Progress         |-> prog[i],
             AdjustedManDays  |-> amd,
             AdjustedManpower |-> Round2(RDiv(amd, RInt(bl[i].duration_days))),
             BalanceBOQ       |-> RMul(RInt(bl[i].boq), Rat(10000 - prog[i], 10000))]]

\* the weekly rows of one task, auto-divided (lines 262-282)
WeeklyRowsOf(row, W) ==
    LET weeks          == Weeks(row.start_date, row.end_date, W)
        num_weeks      == Len(weeks)
        weekly_percent == IF num_weeks > 0 THEN RoundPercent(num_weeks) ELSE 0
    IN  [k \in 1..num_weeks |->
            [Task        |-> row.task_code,
             WeekStart   |-> weeks[k][1],
             WeekEnd     |-> weeks[k][Len(weeks[k])],
             WorkingDays |-> Len(weeks[k]),
             Progress    |-> weekly_percent]]

\* weekly_rows (lines 258-282)
WeeklyRows(bl, W) == Flatten([i \in 1..Len(bl) |-> WeeklyRowsOf(bl[i], W)])

\* the daily rows of one task, auto-divided (lines 312-326)
DailyRowsOf(row, W) ==
    LET dates         == DateRange(row.start_date, row.end_date)
        n             == Len(WorkingDates(row.start_date, row.end_date, W))
        daily_percent == IF n > 0 THEN RoundPercent(n) ELSE 0
    IN  [j \in 1..Len(dates) |->
            [Task     |-> row.task_code,
             Date     |-> dates[j],
             Progress |-> IF Weekday(dates[j]) \in W THEN daily_percent ELSE 0]]

\* daily_rows (lines 308-326)
DailyRows(bl, W) == Flatten([i \in 1..Len(bl) |-> DailyRowsOf(bl[i], W)])

-----------------------------------------------------------------------------
(* Section 3: the curve adjustment (lines 381-472).                        *)

\* the tasks of the master table, in its order (and groupby's sorted order)
TaskOrder == <<"BLK", "SHU">>

\* table[table[col] == task].iloc[0] for the task_code column
TaskRow(table, task) ==
    table[CHOOSE i \in 1..Len(table) :
              /\ table[i].task_code = task
              /\ \A j \in 1..(i - 1) : table[j].task_code # task]

\* the timeline: one point per task and date at the uniform adjusted rate
\* (lines 375-397)
Expand(bl, tp) ==
    Flatten([i \in 1..Len(bl) |->
        LET dates    == DateRange(bl[i].start_date, bl[i].end_date)
            duration == Len(dates)
            base_mp  == RDiv(TaskRow(tp, bl[i].task_code).AdjustedManDays,
                             RInt(duration))
        IN  [j \in 1..duration |->
                [Task |-> bl[i].task_code, Date |-> dates[j], Manpower |-> base_mp]]])

\* planned_weekly of a task, recomputed from the baseline (lines 414-425)
PlannedWeekly(bl, W, task) ==
    LET r == TaskRow(bl, task)
        n == Len(Weeks(r.start_date, r.end_date, W))
    IN  IF n > 0 THEN Rat(100, n) ELSE RZero

\* planned_daily of a task, recomputed from the baseline (lines 443-447)
PlannedDaily(bl, W, task) ==
    LET r == TaskRow(bl, task)
        n == Len(WorkingDates(r.start_date, r.end_date, W))
    IN  IF n > 0 THEN Rat(100, n) ELSE RZero

\* factor = actual / planned (lines 429, 451); progress in hundredths
Factor(progress, planned) == RDiv(Rat(progress, 100), planned)

\* the points of one task with date in [lo, hi] multiplied by f
\* (adjusted_df.loc[mask, "Manpower"] *= factor)
ScaleMask(adj, task, lo, hi, f) ==
    [i \in 1..Len(adj) |->
        IF adj[i].Task = task /\ adj[i].Date >= lo /\ adj[i].Date <= hi
        THEN [adj[i] EXCEPT !.Manpower = RMul(@, f)]
        ELSE adj[i]]

\* one pass of the weekly loop (lines 405-430)
ApplyWeekly(adj, w, bl, W) ==
    LET planned_weekly == PlannedWeekly(bl, W, w.Task)
    IN  IF RGt0(planned_weekly)
        THEN ScaleMask(adj, w.Task, w.WeekStart, w.WeekEnd,
                       Factor(w.Progress, planned_weekly))
        ELSE adj

\* one pass of the daily loop (lines 435-452)
ApplyDaily(adj, d, bl, W) ==
    LET planned_daily == PlannedDaily(bl, W, d.Task)
    IN  IF RGt0(planned_daily)
        THEN ScaleMask(adj, d.Task, d.Date, d.Date,
                       Factor(d.Progress, planned_daily))
        ELSE adj

\* the loops over the records (lines 405, 435); a loop over an empty curve
\* leaves it empty, and the test makes TLC compute the curve after each
\* record instead of nesting the passes
RECURSIVE WeeklyRefinement(_, _, _, _)
WeeklyRefinement(adj, wk, bl, W) ==
    IF wk = <<>> \/ adj = <<>> THEN adj
    ELSE WeeklyRefinement(ApplyWeekly(adj, Head(wk), bl, W), Tail(wk), bl, W)

RECURSIVE DailyRefinement(_, _, _, _)
DailyRefinement(adj, dl, bl, W) ==
    IF dl = <<>> \/ adj = <<>> THEN adj
    ELSE DailyRefinement(ApplyDaily(adj, Head(dl), bl, W), Tail(dl), bl, W)

\* Phase A: only the selected refinement is applied (lines 402-452)
PhaseA(adj, rt, wk, dl, bl, W) ==
    IF rt = "Weekly Report" THEN WeeklyRefinement(adj, wk, bl, W)
    ELSE IF rt = "Daily Report" THEN DailyRefinement(adj, dl, bl, W)
    ELSE adj

\* task_df["Manpower"].sum() (lines 459-460)
ActualTotal(adj, task) ==
    LET task_df == SelectSeq(adj, LAMBDA p : p.Task = task)
    IN  RSum([i \in 1..Len(task_df) |-> task_df[i].Manpower])

\* Scale with the rescaling left out: the factor is 1 for every task
ScaleSkipped(required_total, actual_total) == RInt(1)

\* scale = required_total / actual_total if actual_total > 0 else 1.0
\* (line 468)
Scale(required_total, actual_total) ==
    IF RGt0(actual_total) THEN RDiv(required_total, actual_total) ELSE RInt(1)

\* one pass of the per-task loop (lines 459-470)
ScaleTask(adj, task, tp) ==
    LET actual_total   == ActualTotal(adj, task)
        required_total == TaskRow(tp, task).AdjustedManDays
        scale          == Scale(required_total, actual_total)
    IN  [i \in 1..Len(adj) |->
            IF adj[i].Task = task THEN [adj[i] EXCEPT !.Manpower = RMul(@, scale)]
            ELSE adj[i]]

\* adjusted_df["Task"].unique(): the tasks in order of first appearance
UniqueTasks(bl) == [i \in 1..Len(bl) |-> bl[i].task_code]

\* Phase B: per-task proportional scaling (lines 457-470)
RECURSIVE PhaseB(_, _, _)
PhaseB(adj, tasks, tp) ==
    IF tasks = <<>> \/ adj = <<>> THEN adj
    ELSE PhaseB(ScaleTask(adj, Head(tasks), tp), Tail(tasks), tp)

\* adjusted_df["Manpower"].round(2) (line 472)
RoundCurve(adj) == [i \in 1..Len(adj) |-> [adj[i] EXCEPT !.Manpower = Round2(@)]]

-----------------------------------------------------------------------------
(* Section 3: effective progress and Balance BOQ (lines 478-561).          *)

\* a missing value of a left merge
NaN == <<0, 0>>

\* the sum of the Progress % column over the rows of one task, in hundredths
ProgressSum(df, task) ==
    LET rows == SelectSeq(df, LAMBDA r : r.Task = task)
    IN  ISum([i \in 1..Len(rows) |-> rows[i].Progress])

\* df.groupby("Task")["Progress %"].sum(): one row per task of the table,
\* sorted by task (lines 481, 508)
GroupSum(df) ==
    LET present == SelectSeq(TaskOrder, LAMBDA t : \E i \in 1..Len(df) : df[i].Task = t)
    IN  [k \in 1..Len(present) |->
            [task_code |-> present[k], Effective |-> ProgressSum(df, present[k])]]

\* Exceeds with >= for >
ExceedsOrEqual(effective) == effective >= 10000

\* the test of line 487
Exceeds(effective) == effective > 10000

\* the first row of effective_progress that exceeds 100; 0 if none
\* (lines 486-492)
FirstOverflow(eff) ==
    LET bad == {k \in 1..Len(eff) : Exceeds(eff[k].Effective)}
    IN  IF bad = {} THEN 0 ELSE CHOOSE k \in bad : \A j \in bad : k <= j

\* the effective progress (percent) merged into a row of task_progress_df
\* with how="left": NaN for a task with no row in eff (lines 495-499, 512-516)
MergedEffective(eff, task) ==
    IF \E k \in 1..Len(eff) : eff[k].task_code = task
    THEN Rat((CHOOSE r \in {eff[k] : k \in 1..Len(eff)} : r.task_code = task).Effective, 100)
    ELSE NaN

\* boq * (1 - effective / 100) (lines 502-504, 519-521)
BalanceBOQ(boq, effective) ==
    IF effective = NaN THEN NaN
    ELSE RMul(RInt(boq), RAdd(RInt(1), RMul(RInt(-1), RDiv(effective, RInt(100)))))

\* final_task_summary (lines 549-561)
FinalTaskSummary(tp, eff) ==
    [i \in 1..Len(tp) |->
        [task_code         |-> tp[i].task_code,
         man_days          |-> tp[i].man_days,
         PlannedManpower   |-> tp[i].PlannedManpower,
         EffectiveProgress |-> MergedEffective(eff, tp[i].task_code),
         AdjustedManDays   |-> tp[i].AdjustedManDays,
         AdjustedManpower  |-> tp[i].AdjustedManpower,
         BalanceBOQ        |-> BalanceBOQ(tp[i].boq, MergedEffective(eff, tp[i].task_code))]]

-----------------------------------------------------------------------------
(* The script from Section 2 on, as one run.                               *)

\* Section 3 (lines 360-575): the curve, then the daily check with
\* st.stop() (line 492), then the summary
Section3(bl, W, tp, wk, dl, rt) ==
    LET raw == PhaseB(PhaseA(Expand(bl, tp), rt, wk, dl, bl, W), UniqueTasks(bl), tp)
        eff == GroupSum(IF rt = "Daily Report" THEN dl ELSE wk)
        k   == IF rt = "Daily Report" THEN FirstOverflow(eff) ELSE 0
    IN  /\ adjusted_raw' = raw
        /\ adjusted_df' = RoundCurve(raw)
        /\ IF k # 0
           THEN /\ err' = [kind |-> "ProgressOverflow", task |-> eff[k].task_code]
                /\ stopped' = "L492"
                /\ final_task_summary' = <<>>
           ELSE /\ err' = NoError
                /\ stopped' = "end"
                /\ final_task_summary' = FinalTaskSummary(tp, eff)

\* Sections 2 and 3 with the editors returning prog, wk and dl.  An empty
\* weekly_rows makes pd.DataFrame(weekly_rows) a table without columns, and
\* weekly_df["Week Start"] raises KeyError (line 285): the run ends there.
Sections23(bl, W, prog, wk, dl, gf, rt) ==
    LET tp == TaskProgressDf(bl, prog)
    IN  /\ task_progress_df' = tp
        /\ IF WeeklyRows(bl, W) = <<>>
           THEN /\ UNCHANGED <<weekly_df, daily_df>>
                /\ err' = [kind |-> "KeyError", task |-> ""]
                /\ stopped' = "L285"
                /\ adjusted_raw' = <<>>
                /\ adjusted_df' = <<>>
                /\ final_task_summary' = <<>>
           ELSE /\ weekly_df' = wk
                /\ daily_df' = dl
                /\ IF gf
                   THEN Section3(bl, W, tp, wk, dl, rt)
                   ELSE /\ err' = NoError
                        /\ stopped' = "end"
                        /\ adjusted_raw' = <<>>
                        /\ adjusted_df' = <<>>
                        /\ final_task_summary' = <<>>

\* the line at which a failing row ends the run
StopLine(outcome) ==
    IF outcome = "InvalidInput" THEN "L117"
    ELSE IF outcome = "InvalidDateRange" THEN "L121"
    ELSE "L124"

-----------------------------------------------------------------------------
(* Actions: one user interaction and the run of the script it starts.      *)

\* "Generate Initial Report" with the input table rows and the working
\* weekdays W (lines 105-148, then Sections 2 and 3 on the new baseline,
\* whose editors start from the auto-divided tables)
GenerateInitial(rows, W) ==
    /\ edited_df' = rows
    /\ global_working_days' = W
    /\ last' = "GenerateInitial"
    /\ LET f == FirstFailure(rows)
       IN  IF f # 0
           THEN /\ err' = [kind |-> RowOutcome(rows[f]), task |-> rows[f].task_code]
                /\ stopped' = StopLine(RowOutcome(rows[f]))
                /\ adjusted_raw' = <<>>
                /\ adjusted_df' = <<>>
                /\ final_task_summary' = <<>>
                /\ UNCHANGED <<session, edits>>
           ELSE LET bl == BaselineTable(rows)
                IN  /\ baseline_df' = bl
                    /\ working_days' = W
                    /\ edits' = 0
                    /\ UNCHANGED <<generate_final, report_type>>
                    /\ Sections23(bl, W, [i \in 1..Len(bl) |-> DefaultProgress],
                                  WeeklyRows(bl, W), DailyRows(bl, W),
                                  generate_final, report_type)

\* whether the progress editors were drawn by the last run
EditorsShown == baseline_df # <<>> /\ stopped \in {"end", "L492"}

\* an edit of Progress % in the task-wise table (lines 217-231)
EditTaskProgress(i, v) ==
    /\ baseline_df # <<>>
    /\ stopped \in {"end", "L492", "L285"}
    /\ edits < MaxEdits
    /\ i \in 1..Len(task_progress_df)
    /\ v # task_progress_df[i].Progress
    /\ edits' = edits + 1
    /\ last' = "EditTaskProgress"
    /\ UNCHANGED <<edited_df, global_working_days, baseline_df, working_days,
                   generate_final, report_type>>
    /\ Sections23(baseline_df, working_days,
                  [j \in 1..Len(task_progress_df) |->
                      IF j = i THEN v ELSE task_progress_df[j].Progress],
                  weekly_df, daily_df, generate_final, report_type)

\* an edit of Progress % in the weekly table (lines 288-297)
EditWeekly(k, v) ==
    /\ EditorsShown
    /\ edits < MaxEdits
    /\ k \in 1..Len(weekly_df)
    /\ v # weekly_df[k].Progress
    /\ edits' = edits + 1
    /\ last' = "EditWeekly"
    /\ UNCHANGED <<edited_df, global_working_days, baseline_df, working_days,
                   generate_final, report_type>>
    /\ Sections23(baseline_df, working_days,
                  [j \in 1..Len(task_progress_df) |-> task_progress_df[j].Progress],
                  [weekly_df EXCEPT ![k].Progress = v], daily_df,
                  generate_final, report_type)

\* an edit of Progress % in the daily table: the column is editable in
\* every row (lines 331-338)
EditDaily(k, v) ==
    /\ EditorsShown
    /\ edits < MaxEdits
    /\ k \in 1..Len(daily_df)
    /\ v # daily_df[k].Progress
    /\ edits' = edits + 1
    /\ last' = "EditDaily"
    /\ UNCHANGED <<edited_df, global_working_days, baseline_df, working_days,
                   generate_final, report_type>>
    /\ Sections23(baseline_df, working_days,
                  [j \in 1..Len(task_progress_df) |-> task_progress_df[j].Progress],
                  weekly_df, [daily_df EXCEPT ![k].Progress = v],
                  generate_final, report_type)

\* "Generate Final Report" with the radio at rt (lines 347-354, then
\* Section 3)
GenerateFinal(rt) ==
    /\ EditorsShown
    /\ generate_final' = TRUE
    /\ report_type' = rt
    /\ last' = "GenerateFinal"
    /\ UNCHANGED <<edited_df, global_working_days, baseline_df, working_days, edits>>
    /\ Sections23(baseline_df, working_days,
                  [j \in 1..Len(task_progress_df) |-> task_progress_df[j].Progress],
                  weekly_df, daily_df, TRUE, rt)

-----------------------------------------------------------------------------
(* The session: one or two tasks over short ranges, edited and reported.   *)

\* the task master of src/main.py: boq and rate_per_manday of each task
MasterBoq(task) == IF task = "BLK" THEN 12000 ELSE 3000

MasterRate(task) == IF task = "BLK" THEN 8 ELSE 6

InputRow(task, boq, rate, range) ==
    [task_code |-> task, boq |-> boq, rate |-> rate,
     start_date |-> range[1], end_date |-> range[2]]

\* BLK over Sat 2024-01-06 .. Tue 2024-01-09, alone or with SHU on
\* Sun 2024-01-07
SessionTables ==
    LET blk == InputRow("BLK", MasterBoq("BLK"), MasterRate("BLK"), <<5, 8>>)
        shu == InputRow("SHU", MasterBoq("SHU"), MasterRate("SHU"), <<6, 6>>)
    IN  {<<blk>>, <<blk, shu>>}

\* Monday to Saturday (the default, line 64), and every day
SessionWeekdays == {0..5, 0..6}

ReportTypes == {"Daily Report", "Weekly Report"}

\* values typed into a weekly or daily Progress % cell, within [0, 300]
PeriodValues == {0, 14000}

\* values typed into a task-wise Progress % cell, within [1, 300]
TaskValues == {5000}

Init ==
    /\ edited_df = <<>>
    /\ global_working_days = 0..5
    /\ baseline_df = <<>>
    /\ working_days = {}
    /\ task_progress_df = <<>>
    /\ weekly_df = <<>>
    /\ daily_df = <<>>
    /\ generate_final = FALSE
    /\ report_type = ""
    /\ err = NoError
    /\ stopped = "end"
    /\ adjusted_raw = <<>>
    /\ adjusted_df = <<>>
    /\ final_task_summary = <<>>
    /\ last = "start"
    /\ edits = 0

SubmitInitial == \E rows \in SessionTables, W \in SessionWeekdays : GenerateInitial(rows, W)

TypeTaskProgress == \E i \in 1..2, v \in TaskValues : EditTaskProgress(i, v)

TypeWeekly == \E k \in 1..Len(weekly_df), v \in PeriodValues : EditWeekly(k, v)

TypeDaily == \E k \in 1..Len(daily_df), v \in PeriodValues : EditDaily(k, v)

ClickFinal == \E rt \in ReportTypes : GenerateFinal(rt)

Next == SubmitInitial \/ TypeTaskProgress \/ TypeWeekly \/ TypeDaily \/ ClickFinal

Spec == Init /\ [][Next]_vars

-----------------------------------------------------------------------------
(* The input validation: Generate Initial Report over valid and invalid    *)
(* input tables, one after another in one session.                         *)

ValidationRows(task) ==
    {InputRow(task, boq, rate, range) :
        boq \in {0, MasterBoq(task)}, rate \in {-6, 0, MasterRate(task)},
        range \in {<<0, 6>>, <<2, 1>>}}

ValidationTables ==
    {<<r>> : r \in ValidationRows("BLK")}
        \cup {<<r[1], r[2]>> : r \in ValidationRows("BLK") \X ValidationRows("SHU")}

SubmitValidation == \E rows \in ValidationTables : GenerateInitial(rows, 0..5)

NextBaseline == SubmitValidation

SpecBaseline == Init /\ [][NextBaseline]_vars

-----------------------------------------------------------------------------
(* The calendar: the progress tables of one task over short and year-long  *)
(* date ranges, for each working-weekday set.  The inputs are drawn by the *)
(* initial state; the action builds the tables from them.                  *)

\* range lengths in days: every short one, and some around one year
CalendarSpans == (1..MaxSpan) \cup {364, 365, 372}

CalendarTables ==
    {<<InputRow("BLK", MasterBoq("BLK"), MasterRate("BLK"), <<s, s + n - 1>>)>> :
        s \in 0..6, n \in CalendarSpans}

\* no day, Mondays only, Monday to Saturday, every day
CalendarWeekdays == {{}, {0}, 0..5, 0..6}

InitCalendar ==
    /\ edited_df \in CalendarTables
    /\ global_working_days \in CalendarWeekdays
    /\ baseline_df = <<>>
    /\ working_days = {}
    /\ task_progress_df = <<>>
    /\ weekly_df = <<>>
    /\ daily_df = <<>>
    /\ generate_final = FALSE
    /\ report_type = ""
    /\ err = NoError
    /\ stopped = "end"
    /\ adjusted_raw = <<>>
    /\ adjusted_df = <<>>
    /\ final_task_summary = <<>>
    /\ last = "start"
    /\ edits = 0

ClickInitial == GenerateInitial(edited_df, global_working_days)

NextCalendar == ClickInitial

SpecCalendar == InitCalendar /\ [][NextCalendar]_vars

-----------------------------------------------------------------------------
(* The untouched tables: the same inputs, with a Daily Report generated    *)
(* straight from the auto-divided tables, no cell edited.                  *)

\* the inputs of the calendar whose range is at most MaxSpan days long
InitDefaults ==
    /\ InitCalendar
    /\ edited_df[1].end_date - edited_df[1].start_date < MaxSpan

ClickFinalDaily == GenerateFinal("Daily Report")

NextDefaults == ClickInitial \/ ClickFinalDaily

SpecDefaults == InitDefaults /\ [][NextDefaults]_vars

-----------------------------------------------------------------------------
(* Properties of the session (Spec).                                       *)

\* the curve of the last report after Phase A, before Phase B
PhaseACurve ==
    PhaseA(Expand(baseline_df, task_progress_df), report_type, weekly_df, daily_df,
           baseline_df, working_days)

\* the last run computed the curve of a final report
ReportRan == adjusted_raw # <<>>

\* C1 as stated: for every task and every combination of period progress
\* values and task-level Progress %, the final curve of the task before the
\* rounding sums to its Adjusted Man-Days.
C1_ConservationAlways ==
    ReportRan =>
        \A i \in 1..Len(task_progress_df) :
            ActualTotal(adjusted_raw, task_progress_df[i].task_code)
                = task_progress_df[i].AdjustedManDays

\* C1 amended: the final curve of a task before the rounding sums to its
\* Adjusted Man-Days whenever the task's total after Phase A is positive,
\* whatever factors Phase A applied.
C1_Conservation ==
    ReportRan =>
        \A i \in 1..Len(task_progress_df) :
            RGt0(ActualTotal(PhaseACurve, task_progress_df[i].task_code)) =>
                ActualTotal(adjusted_raw, task_progress_df[i].task_code)
                    = task_progress_df[i].AdjustedManDays

\* a report in which Phase A left a task with a positive total and a curve
\* that is no longer uniform, under a task-level Progress % other than 100
C1_Witness ==
    /\ ReportRan
    /\ \E i \in 1..Len(task_progress_df) :
          /\ task_progress_df[i].Progress # DefaultProgress
          /\ RGt0(ActualTotal(PhaseACurve, task_progress_df[i].task_code))
          /\ \E j, k \in 1..Len(adjusted_raw) :
                /\ adjusted_raw[j].Task = task_progress_df[i].task_code
                /\ adjusted_raw[k].Task = task_progress_df[i].task_code
                /\ PhaseACurve[j].Manpower # PhaseACurve[k].Manpower

\* every progress record is at its auto-divided default and every
\* task-level Progress % is 100
AllDefaults ==
    /\ weekly_df = WeeklyRows(baseline_df, working_days)
    /\ daily_df = DailyRows(baseline_df, working_days)
    /\ \A i \in 1..Len(task_progress_df) : task_progress_df[i].Progress = DefaultProgress

\* the Phase A factors of the selected report type that are applied
PhaseAFactors ==
    IF report_type = "Weekly Report"
    THEN {Factor(weekly_df[k].Progress,
                 PlannedWeekly(baseline_df, working_days, weekly_df[k].Task)) :
             k \in {k \in 1..Len(weekly_df) :
                       RGt0(PlannedWeekly(baseline_df, working_days, weekly_df[k].Task))}}
    ELSE {Factor(daily_df[k].Progress,
                 PlannedDaily(baseline_df, working_days, daily_df[k].Task)) :
             k \in {k \in 1..Len(daily_df) :
                       RGt0(PlannedDaily(baseline_df, working_days, daily_df[k].Task))}}

\* C2: with every record at its default and Progress % = 100, every Phase A
\* factor is 1 and the final curve has the uniform baseline value
\* man_days / duration_days (as displayed, rounded) on every date.
C2_Idempotence ==
    (ReportRan /\ AllDefaults) =>
        /\ PhaseAFactors \subseteq {RInt(1)}
        /\ \A k \in 1..Len(adjusted_df) :
              adjusted_df[k].Manpower
                  = Round2(TaskRow(baseline_df, adjusted_df[k].Task).manpower)

\* C3: a Daily report is rejected with ProgressOverflow naming a task, and
\* shows no summary, exactly when some task's daily percentages sum to more
\* than 100; a Weekly report is never rejected, and the weekly sum, also
\* above 100, is the effective progress of the summary.
C3_OverflowCheck ==
    ReportRan =>
        IF report_type = "Daily Report"
        THEN IF \E i \in 1..Len(baseline_df) :
                    ProgressSum(daily_df, baseline_df[i].task_code) > 10000
             THEN /\ err.kind = "ProgressOverflow"
                  /\ ProgressSum(daily_df, err.task) > 10000
                  /\ final_task_summary = <<>>
             ELSE /\ err = NoError
                  /\ final_task_summary # <<>>
        ELSE /\ err = NoError
             /\ final_task_summary # <<>>
             /\ \A i \in 1..Len(final_task_summary) :
                   (\E k \in 1..Len(weekly_df) :
                        weekly_df[k].Task = final_task_summary[i].task_code)
                   => final_task_summary[i].EffectiveProgress
                          = Rat(ProgressSum(weekly_df, final_task_summary[i].task_code), 100)

\* a Daily report rejected for a task whose daily percentages exceed 100
C3_Witness ==
    /\ ReportRan
    /\ report_type = "Daily Report"
    /\ err.kind = "ProgressOverflow"
    /\ ProgressSum(daily_df, err.task) > 10000
    /\ final_task_summary = <<>>

\* C5: when a report-generation action ends in InvalidInput, InvalidDateRange
\* or ProgressOverflow, the error was raised before any downstream
\* computation (no curve was expanded, reshaped or rescaled) and the action
\* wrote nothing to the session state.
C5_ValidateFirst ==
    [][(/\ last' \in {"GenerateInitial", "GenerateFinal"}
        /\ err'.kind \in {"InvalidInput", "InvalidDateRange", "ProgressOverflow"})
       => (/\ adjusted_raw' = <<>>
           /\ adjusted_df' = <<>>
           /\ UNCHANGED session)]_vars

\* C8: the progress value of every non-working date of the daily table is 0,
\* whatever the user edited.
C8_NonWorkingZero ==
    \A k \in 1..Len(daily_df) :
        Weekday(daily_df[k].Date) \notin working_days => daily_df[k].Progress = 0

\* C10: in the final task summary, Balance BOQ of every task is
\* boq * (1 - E / 100), E the sum of the task's period percentages of the
\* selected report type.
C10_BalanceBOQ ==
    final_task_summary # <<>> =>
        \A i \in 1..Len(final_task_summary) :
            final_task_summary[i].BalanceBOQ
                = RMul(RInt(task_progress_df[i].boq),
                       Rat(10000 - ProgressSum(IF report_type = "Daily Report"
                                               THEN daily_df ELSE weekly_df,
                                               final_task_summary[i].task_code),
                           10000))

-----------------------------------------------------------------------------
(* Properties of the input validation (SpecBaseline).                      *)

\* the input table holds a row the validation of the specification rejects
InvalidRows(rows) ==
    {i \in 1..Len(rows) :
        rows[i].boq <= 0 \/ rows[i].rate <= 0 \/ rows[i].end_date < rows[i].start_date}

\* C4: Generate Initial Report on a table with a row of boq <= 0 or
\* rate_per_manday <= 0 fails with InvalidInput, on one with
\* end_date < start_date with InvalidDateRange, naming such a row, and
\* leaves the baseline table and the working-day set of the session as
\* they were.
C4_Validation ==
    [][InvalidRows(edited_df') # {}
       => (/\ err'.kind \in {"InvalidInput", "InvalidDateRange"}
           /\ \E i \in InvalidRows(edited_df') :
                 /\ edited_df'[i].task_code = err'.task
                 /\ err'.kind = "InvalidInput"
                       => (edited_df'[i].boq <= 0 \/ edited_df'[i].rate <= 0)
                 /\ err'.kind = "InvalidDateRange"
                       => edited_df'[i].end_date < edited_df'[i].start_date
           /\ UNCHANGED <<baseline_df, working_days>>)]_vars

-----------------------------------------------------------------------------
(* Properties of the calendar (SpecCalendar).                              *)

\* the progress tables of the session were built from its baseline
TablesBuilt ==
    /\ baseline_df # <<>>
    /\ weekly_df = WeeklyRows(baseline_df, working_days)
    /\ daily_df = DailyRows(baseline_df, working_days)

\* the rows of the daily table on working dates of a task, and their number
WorkingRows(task) ==
    SelectSeq(daily_df, LAMBDA r : r.Task = task /\ Weekday(r.Date) \in working_days)

\* the sum of the daily percentages of a task over its working dates
WorkingSum(task) ==
    ISum([k \in 1..Len(WorkingRows(task)) |-> WorkingRows(task)[k].Progress])

\* C6 as stated: the auto-divided daily percentages of a task with at least
\* one working day sum to 100 +/- 0.1 over its working dates, and are 0 on
\* every non-working date.
C6_DailySumTenth ==
    TablesBuilt =>
        \A i \in 1..Len(baseline_df) :
            /\ Len(WorkingRows(baseline_df[i].task_code)) >= 1
                  => Abs(WorkingSum(baseline_df[i].task_code) - 10000) <= 10
            /\ \A k \in 1..Len(daily_df) :
                  Weekday(daily_df[k].Date) \notin working_days
                      => daily_df[k].Progress = 0

\* C6 amended: the sum over the n >= 1 working dates lies within
\* 100 +/- 0.005 * n, and the value of every non-working date is 0.
C6_DailySum ==
    TablesBuilt =>
        \A i \in 1..Len(baseline_df) :
            /\ Len(WorkingRows(baseline_df[i].task_code)) >= 1
                  => 2 * Abs(WorkingSum(baseline_df[i].task_code) - 10000)
                         <= Len(WorkingRows(baseline_df[i].task_code))
            /\ \A k \in 1..Len(daily_df) :
                  Weekday(daily_df[k].Date) \notin working_days
                      => daily_df[k].Progress = 0

\* tables built for a task with more than 30 working days and a
\* non-working date in its range, whose working dates carry a rounded share
C6_Witness ==
    /\ TablesBuilt
    /\ Len(WorkingRows(baseline_df[1].task_code)) > 30
    /\ WorkingRows(baseline_df[1].task_code)[1].Progress
          = RoundPercent(Len(WorkingRows(baseline_df[1].task_code)))
    /\ WorkingSum(baseline_df[1].task_code) # 10000
    /\ \E k \in 1..Len(daily_df) : Weekday(daily_df[k].Date) \notin working_days

\* the spans [Week Start, Week End] of the weekly records of a task
WeeklySpans(task) ==
    LET recs == SelectSeq(weekly_df, LAMBDA w : w.Task = task)
    IN  [k \in 1..Len(recs) |-> <<recs[k].WeekStart, recs[k].WeekEnd>>]

\* C7: a task has one weekly record per (ISO year, ISO week) pair holding a
\* working date of it: two working dates lie in the span of one record
\* exactly if they share the ISO year and the ISO week, and the spans of
\* the records do not overlap.
C7_WeeklyBuckets ==
    TablesBuilt =>
        \A i \in 1..Len(baseline_df) :
            LET wd    == WorkingDates(baseline_df[i].start_date,
                                      baseline_df[i].end_date, working_days)
                spans == WeeklySpans(baseline_df[i].task_code)
                first == wd[1]
            IN  /\ Len(spans)
                      = Cardinality({<<IsoYear(wd[j]), IsoWeek(wd[j])>> : j \in 1..Len(wd)})
                /\ \A a, b \in 1..Len(spans) :
                      a < b => (spans[a][2] < spans[b][1] \/ spans[b][2] < spans[a][1])
                /\ \A j \in 1..Len(wd) :
                      (\E k \in 1..Len(spans) :
                           /\ spans[k][1] <= first /\ first <= spans[k][2]
                           /\ spans[k][1] <= wd[j] /\ wd[j] <= spans[k][2])
                      <=> (IsoYear(wd[j]) = IsoYear(first) /\ IsoWeek(wd[j]) = IsoWeek(first))

\* C9: with an empty working-weekday set the progress tables are built and
\* the final report is generated without any error, no Phase A factor is
\* applied and every task's final curve is Adjusted Man-Days / duration_days
\* on every date.
C9_EmptyCalendar ==
    (baseline_df # <<>> /\ working_days = {}) =>
        /\ err = NoError
        /\ TablesBuilt
        /\ ReportRan =>
              /\ PhaseAFactors = {}
              /\ \A k \in 1..Len(adjusted_raw) :
                    adjusted_raw[k].Manpower
                        = RDiv(TaskRow(task_progress_df, adjusted_raw[k].Task).AdjustedManDays,
                               RInt(TaskRow(baseline_df, adjusted_raw[k].Task).duration_days))

-----------------------------------------------------------------------------
(* The frame of Phase A and Phase B (Spec).                                *)

\* two rationals denote the same number
SameValue(a, b) == a[1] * b[2] = b[1] * a[2]

\* the records of the selected report type that stand for the period of
\* task's date d: the weekly records of its ISO week, the daily record of d
PeriodRecords(task, d) ==
    IF report_type = "Weekly Report"
    THEN {r \in 1..Len(weekly_df) :
            /\ weekly_df[r].Task = task
            /\ IsoWeek(weekly_df[r].WeekStart) = IsoWeek(d)
            /\ IsoYear(weekly_df[r].WeekStart) = IsoYear(d)}
    ELSE {r \in 1..Len(daily_df) :
            daily_df[r].Task = task /\ daily_df[r].Date = d}

\* the planned share of a period of the task, and the factor of record r
PlannedShare(task) ==
    IF report_type = "Weekly Report"
    THEN PlannedWeekly(baseline_df, working_days, task)
    ELSE PlannedDaily(baseline_df, working_days, task)

RecordFactor(r, task) ==
    Factor(IF report_type = "Weekly Report"
           THEN weekly_df[r].Progress ELSE daily_df[r].Progress,
           PlannedShare(task))

\* C11: after Phase A every curve point of a task with a positive planned
\* share is the baseline point multiplied by the factor of exactly one
\* record, the record of the period its date falls in (for a weekly record
\* every date of the task's range in that week, working or not), and
\* Phase B's rescale of a task changes no point of another task.
C11_PhaseAFrame ==
    ReportRan =>
        LET base == Expand(baseline_df, task_progress_df)
        IN  /\ \A k \in 1..Len(base) :
                  RGt0(PlannedShare(base[k].Task)) =>
                      \E r \in PeriodRecords(base[k].Task, base[k].Date) :
                          /\ PeriodRecords(base[k].Task, base[k].Date) = {r}
                          /\ SameValue(PhaseACurve[k].Manpower,
                                       RMul(base[k].Manpower,
                                            RecordFactor(r, base[k].Task)))
            /\ \A i \in 1..Len(task_progress_df) :
                  \A k \in 1..Len(base) :
                      PhaseACurve[k].Task # task_progress_df[i].task_code =>
                          ScaleTask(PhaseACurve, task_progress_df[i].task_code,
                                    task_progress_df)[k] = PhaseACurve[k]

-----------------------------------------------------------------------------
(* Properties of the untouched tables (SpecDefaults).                      *)

\* C12: a Daily Report generated while every daily record is at its
\* auto-divided default never raises ProgressOverflow, for every task,
\* working-weekday set and date range.
C12_DefaultsNeverOverflow ==
    (/\ last = "GenerateFinal"
     /\ report_type = "Daily Report"
     /\ daily_df = DailyRows(baseline_df, working_days))
        => err.kind # "ProgressOverflow"

=============================================================================
